---- MODULE Spec2Model ----
(***************************************************************************)
(* The outbound HTTP request pipeline of api_handler.py (APIHandler,       *)
(* handle_api_request) and the polling generator of app.py (poll_status),  *)
(* as state machines.                                                      *)
(*                                                                         *)
(* Python values are represented as follows.                               *)
(*   - an optional value (None / a missing key) is a sequence of length    *)
(*     at most one: << >> is None or "key absent", <<v>> is the value v;   *)
(*   - a str that the code takes apart (a credential, a header value) is   *)
(*     a sequence of pieces, so that startswith and concatenation are      *)
(*     computed; all other strings are TLA+ strings;                       *)
(*   - bytes are sequences of numbers 0..255, text is a sequence of code   *)
(*     points;                                                             *)
(*   - a dict is a function from its keys.                                 *)
(***************************************************************************)
EXTENDS Integers, Sequences, FiniteSets, TLC

VARIABLES
    config,        \* the dict the caller passes to handle_api_request
    auth_token,    \* the optional credential
    pc,            \* position of the handle_api_request call
    handler,       \* << >> or <<self.config>> of the constructed APIHandler
    sessionOpen,   \* self.session exists and has not been closed
    request,       \* << >> or <<request_params>> handed to session.request
    attempts,      \* requests the transport has put on the wire
    retrying,      \* << >> or <<outcome>>: the outcome the transport is retrying
    response,      \* << >> or <<the response session.request returned>>
    responseOpen,  \* the response handle has not been closed
    accumulated,   \* accumulated_data of _handle_response
    yielded,       \* bytes yielded so far by _stream_response (sum of chunk lengths)
    fault,         \* "none", or the fault that ended the request
    truncation,    \* << >> or <<[before, partial]>>: the IncompleteRead observed
    result,        \* << >> or <<the dict returned by handle_api_request>>
    escaped,       \* << >> or <<the exception that left handle_api_request>>
    pollPc,        \* position of the poll_status generator
    now,           \* time.time()
    start_time,    \* poll_status: start_time
    max_duration,  \* poll_status: max_duration
    interval,      \* poll_status: interval
    ticks,         \* start times (relative to start_time) of the ticks begun
    notifications, \* number of events yielded by poll_status
    pollStatus,    \* poll_status: status, the flag read in the current tick
    tick,          \* how the current tick's request ended
    busy,          \* total time spent inside execute_api_call
    pollInput,     \* what the caller passed: is api_info well formed, is poll_id
                   \* JSON-encodable
    lastEvent,     \* "none", or what the last event yielded embeds
    failures,      \* ticks that went through the except clause
    sawFlag,       \* a tick read a true flag and yielded its result
    cancelled,     \* the consumer has closed the generator
    pollEscaped,   \* << >> or <<class of the exception that left poll_status>>
    callPc,        \* shared handler: position of each concurrent execute call
    callsMade      \* shared handler: execute calls each thread has finished

execVars == <<config, auth_token, pc, handler, sessionOpen, request, attempts,
              retrying, response, responseOpen, accumulated, yielded, fault, truncation, result,
              escaped>>
pollVars == <<pollPc, now, start_time, max_duration, interval, ticks,
              notifications, pollStatus, tick, busy, pollInput, lastEvent, failures,
              sawFlag, cancelled, pollEscaped>>
sharedVars == <<callPc, callsMade>>
vars == <<execVars, pollVars, sharedVars>>

(***************************************************************************)
(* Bounds of the model.                                                    *)
(***************************************************************************)
MaxBody == 3       \* longest response body, in bytes
MaxChunk == 2      \* longest chunk the stream hands over at once, in bytes
MaxReqDur == 2     \* longest duration of one polling request, in time units

(***************************************************************************)
(* Small helpers.                                                          *)
(***************************************************************************)
Has(opt) == Len(opt) = 1
Get(opt) == opt[1]
Str(s) == <<s>>

RECURSIVE SeqsUpTo(_, _)
SeqsUpTo(S, n) ==
    IF n = 0 THEN {<< >>}
    ELSE LET shorter == SeqsUpTo(S, n - 1)
         IN  shorter \cup {Append(s, x) : s \in shorter, x \in S}

(***************************************************************************)
(* Exceptions: a class name and str(e).  Ancestors is the class hierarchy  *)
(* the except clauses match against.                                       *)
(***************************************************************************)
Exc(cls, msg) == [cls |-> cls, msg |-> msg]

Ancestors(cls) ==
    CASE cls = "ConnectTimeout" ->
            {"ConnectTimeout", "ConnectionError", "Timeout", "RequestException", "Exception"}
      [] cls = "ReadTimeout" ->
            {"ReadTimeout", "Timeout", "RequestException", "Exception"}
      [] cls \in {"ConnectionError", "RetryError", "ChunkedEncodingError"} ->
            {cls, "RequestException", "Exception"}
      [] cls = "GeneratorExit" -> {"GeneratorExit", "BaseException"}
      [] OTHER -> {cls, "Exception"}

IsInstance(exc, cls) == cls \in Ancestors(exc.cls)

(***************************************************************************)
(* Raw configurations.  A field is << >> when the key is missing.          *)
(***************************************************************************)
EmptyDict == [k \in {} |-> << >>]

Dict(items) == [isDict |-> TRUE, items |-> items]
NotADict == [isDict |-> FALSE, items |-> EmptyDict]

Endpoints ==
    {<< >>, <<"">>, <<"http://h/x">>, <<"https://h/x">>, <<"ftp://h/x">>,
     <<"http:///x">>, <<"h/x">>}

MethodNames == {<< >>, <<"get">>, <<"POST">>, <<"Put">>, <<"PATCH">>, <<"DELETE">>, <<"HEAD">>}

HeaderValues ==
    {<< >>, <<Dict("Content-Type" :> Str("application/json"))>>, <<NotADict>>}

Payloads == {<< >>}

Tokens == {<< >>}

Configs ==
    [endpoint : Endpoints, method : MethodNames, headers : HeaderValues,
     payload : Payloads]

(***************************************************************************)
(* urllib.parse.urlparse on the endpoints above: scheme and netloc.        *)
(***************************************************************************)
urlparse(url) ==
    CASE url = "http://h/x"  -> [scheme |-> "http",  netloc |-> "h"]
      [] url = "https://h/x" -> [scheme |-> "https", netloc |-> "h"]
      [] url = "ftp://h/x"   -> [scheme |-> "ftp",   netloc |-> "h"]
      [] url = "http:///x"   -> [scheme |-> "http",  netloc |-> ""]
      [] OTHER               -> [scheme |-> "",      netloc |-> ""]

(* str.upper on the method names above. *)
upper(m) ==
    CASE m = "get" -> "GET"
      [] m = "Put" -> "PUT"
      [] OTHER     -> m

AllowedMethods == {"GET", "POST", "PUT", "PATCH", "DELETE"}

AllowedSchemes == {"http", "https"}

(* dict.get(key, default) on an optional field. *)
GetOr(field, default) == IF Has(field) THEN Get(field) ELSE default

Valid(cfg) == [ok |-> TRUE, config |-> <<cfg>>, exc |-> << >>]
Invalid(msg) == [ok |-> FALSE, config |-> << >>, exc |-> <<Exc("ValueError", msg)>>]

(***************************************************************************)
(* The checks on the parsed URL, inside the try block: a ValueError raised *)
(* there is caught by the except clause and raised again with a prefix.    *)
(***************************************************************************)
(* faulty variant: the scheme is not checked *)
SchemeAllowed_Any(scheme) == TRUE

SchemeAllowed(scheme) == scheme \in AllowedSchemes

EndpointError(url) ==
    IF url.scheme = "" \/ url.netloc = ""
    THEN <<"Invalid endpoint URL: Invalid URL format">>
    ELSE IF ~SchemeAllowed(url.scheme)
    THEN <<"Invalid endpoint URL: URL must use http or https protocol">>
    ELSE << >>

MethodAllowed(method) == method \in AllowedMethods

(* the fields of a raw configuration the validator never reads *)
ExtraFields(cfg) == DOMAIN cfg \ {"endpoint", "method", "headers", "payload"}

(* faulty variant: the extra fields that are present are put into the payload *)
_validate_config_ExtrasInPayload(cfg) ==
    IF ~Has(cfg.endpoint) \/ Get(cfg.endpoint) = ""
    THEN Invalid("API endpoint is required")
    ELSE LET err == EndpointError(urlparse(Get(cfg.endpoint)))
             method == upper(GetOr(cfg.method, "GET"))
             headers == GetOr(cfg.headers, Dict(EmptyDict))
             extras == {k \in ExtraFields(cfg) : Has(cfg[k])}
         IN  IF Has(err) THEN Invalid(Get(err))
             ELSE IF ~MethodAllowed(method)
             THEN Invalid("Unsupported HTTP method")
             ELSE IF ~headers.isDict
             THEN Invalid("Headers must be a dictionary")
             ELSE Valid([endpoint |-> Get(cfg.endpoint),
                         method |-> method,
                         headers |-> headers.items,
                         payload |-> IF extras = {} THEN cfg.payload
                                     ELSE <<[k \in extras |-> Get(cfg[k])]
                                            @@ GetOr(cfg.payload, EmptyDict)>>])

(***************************************************************************)
(* APIHandler._validate_config: the validated configuration, or the        *)
(* ValueError raised.                                                      *)
(***************************************************************************)
_validate_config(cfg) ==
    IF ~Has(cfg.endpoint) \/ Get(cfg.endpoint) = ""
    THEN Invalid("API endpoint is required")
    ELSE LET err == EndpointError(urlparse(Get(cfg.endpoint)))
             method == upper(GetOr(cfg.method, "GET"))
             headers == GetOr(cfg.headers, Dict(EmptyDict))
         IN  IF Has(err) THEN Invalid(Get(err))
             ELSE IF ~MethodAllowed(method)
             THEN Invalid("Unsupported HTTP method")
             ELSE IF ~headers.isDict
             THEN Invalid("Headers must be a dictionary")
             ELSE Valid([endpoint |-> Get(cfg.endpoint),
                         method |-> method,
                         headers |-> headers.items,
                         payload |-> cfg.payload])

(***************************************************************************)
(* APIHandler.execute, request preparation: the credential merged into a   *)
(* copy of the headers, and the payload routed by method.                  *)
(***************************************************************************)
startswith(s, piece) == Len(s) >= 1 /\ s[1] = piece

(* truth value of an optional str, of an optional dict *)
TruthyStr(opt) == Has(opt) /\ Len(Get(opt)) > 0
TruthyDict(opt) == Has(opt) /\ DOMAIN Get(opt) # {}

(* faulty variant: the prefix is added without looking at the credential *)
MergeCredential_AlwaysPrefix(headers, token) ==
    IF TruthyStr(token)
    THEN ("Authorization" :> (<<"Bearer ">> \o Get(token))) @@ headers
    ELSE headers

MergeCredential(headers, token) ==
    IF TruthyStr(token)
    THEN ("Authorization" :>
            (IF startswith(Get(token), "Bearer ") THEN Get(token)
             ELSE <<"Bearer ">> \o Get(token))) @@ headers
    ELSE headers

(* faulty variant: the payload goes to the query string whatever the method *)
RequestParams_AlwaysParams(cfg, token) ==
    [url |-> cfg.endpoint,
     headers |-> MergeCredential(cfg.headers, token),
     params |-> IF TruthyDict(cfg.payload) THEN cfg.payload ELSE << >>,
     json |-> << >>]

RequestParams(cfg, token) ==
    [url |-> cfg.endpoint,
     headers |-> MergeCredential(cfg.headers, token),
     params |-> IF cfg.method = "GET" /\ TruthyDict(cfg.payload) THEN cfg.payload ELSE << >>,
     json |-> IF cfg.method \in {"POST", "PUT", "PATCH", "DELETE"} /\ TruthyDict(cfg.payload)
              THEN cfg.payload ELSE << >>]

(***************************************************************************)
(* The transport: the session of _create_session with its Retry policy.    *)
(* One attempt ends in a failure at network level or in a response.        *)
(***************************************************************************)
RetryTotal == 3

StatusForcelist == {500, 502, 503, 504}

RetryMethods == {"GET", "POST", "PUT", "DELETE", "PATCH"}

(* Retry.RETRY_AFTER_STATUS_CODES, honoured since respect_retry_after_header
   keeps its default. *)
RetryAfterStatusCodes == {413, 429, 503}

Statuses == {200, 404, 429, 500, 503}

NetworkFailures == {"connect_timeout", "read_timeout", "connection_error"}

Failure(kind) == [kind |-> kind, status |-> 0, retry_after |-> FALSE]
Answered(status, retry_after) ==
    [kind |-> "response", status |-> status, retry_after |-> retry_after]

Outcomes ==
    {Failure(k) : k \in NetworkFailures}
    \cup {Answered(st, ra) : st \in Statuses, ra \in BOOLEAN}

(* faulty variant: every error status is retried *)
IsRetry_AnyErrorStatus(method, outcome, remaining) ==
    /\ method \in RetryMethods
    /\ \/ outcome.kind \in NetworkFailures
       \/ outcome.status >= 400

(* Retry.is_retry for a response, and the retry of errors in
   Retry.increment; remaining is what is left of total. *)
IsRetry(method, outcome, remaining) ==
    /\ method \in RetryMethods
    /\ \/ outcome.kind \in NetworkFailures
       \/ outcome.status \in StatusForcelist
       \/ /\ remaining # 0
          /\ outcome.retry_after
          /\ outcome.status \in RetryAfterStatusCodes

(* What is left of total before the attempt numbered n + 1. *)
Remaining(n) == RetryTotal - n

(* Retry.is_exhausted after one more increment. *)
Exhausted(n) == Remaining(n) - 1 < 0

(***************************************************************************)
(* The exception session.request raises for the outcome of the last        *)
(* attempt, when the transport gives up.                                   *)
(***************************************************************************)
SendRaises(outcome) ==
    CASE outcome.kind = "connect_timeout" ->
            Exc("ConnectTimeout", "Max retries exceeded (connect timeout)")
      [] outcome.kind = "read_timeout" ->
            Exc("ConnectionError", "Max retries exceeded (read timed out)")
      [] outcome.kind = "connection_error" ->
            Exc("ConnectionError", "Max retries exceeded (connection failed)")
      [] OTHER ->
            Exc("RetryError", "Max retries exceeded (too many error responses)")

(***************************************************************************)
(* Response handles.                                                       *)
(***************************************************************************)
ContentTypes == {"", "application/json; charset=utf-8", "text/plain"}

(* 'application/json' in content_type *)
ContainsJson(content_type) == content_type = "application/json; charset=utf-8"

(* response.ok: raise_for_status does not raise *)
Ok(status) == status < 400

Reason(status) ==
    CASE status = 200 -> "OK"
      [] status = 404 -> "Not Found"
      [] status = 429 -> "Too Many Requests"
      [] status = 500 -> "Internal Server Error"
      [] OTHER        -> "Service Unavailable"

(***************************************************************************)
(* Bodies.  The bytes are '1', '[', ']' and 0xFF; 0xFF occurs in no UTF-8  *)
(* encoding.                                                               *)
(***************************************************************************)
Bytes == {49, 91, 93, 255}

IsDigit(b) == b = 49
IsLBracket(b) == b = 91
IsRBracket(b) == b = 93

(* what iter_content may hand over at once *)
Chunks == SeqsUpTo(Bytes, MaxChunk)

(* bytes.decode('utf-8'): the text, or << >> for UnicodeDecodeError *)
IsUtf8(buf) == \A i \in 1..Len(buf) : buf[i] < 128

DecodeUtf8(buf) == IF IsUtf8(buf) THEN <<buf>> ELSE << >>

(* str(bytearray): "bytearray(b'" + escaped bytes + "')" *)
ReprPrefix == <<98, 121, 116, 101, 97, 114, 114, 97, 121, 40, 98, 39>>
ReprSuffix == <<39, 41>>

EscapeByte(b) == IF b < 128 THEN <<b>> ELSE <<92, 120, 102, 102>>

RECURSIVE Escape(_)
Escape(buf) ==
    IF buf = << >> THEN << >> ELSE EscapeByte(Head(buf)) \o Escape(Tail(buf))

Repr(buf) == ReprPrefix \o Escape(buf) \o ReprSuffix

(***************************************************************************)
(* json.loads on these bytes.  The documents over this alphabet are the    *)
(* numbers 1, 11, ... and arrays of at most one element.  A value is its   *)
(* nesting depth and its number (-1 for an empty innermost array).         *)
(***************************************************************************)
JsonValue(depth, num) == [depth |-> depth, num |-> num]

IsDigits(s) == Len(s) > 0 /\ \A i \in 1..Len(s) : IsDigit(s[i])

RECURSIVE Decimal(_)
Decimal(s) == IF s = << >> THEN 0 ELSE 10 * Decimal(SubSeq(s, 1, Len(s) - 1)) + 1

RECURSIVE ParseJson(_)
ParseJson(s) ==
    IF IsDigits(s) THEN <<JsonValue(0, Decimal(s))>>
    ELSE IF Len(s) >= 2 /\ IsLBracket(s[1]) /\ IsRBracket(s[Len(s)])
    THEN IF Len(s) = 2 THEN <<JsonValue(1, -1)>>
         ELSE LET inner == ParseJson(SubSeq(s, 2, Len(s) - 1))
              IN  IF Has(inner)
                  THEN <<JsonValue(Get(inner).depth + 1, Get(inner).num)>>
                  ELSE << >>
    ELSE << >>

(* json.loads(bytearray): UnicodeDecodeError or JSONDecodeError give << >> *)
json_loads(buf) == IF IsUtf8(buf) THEN ParseJson(buf) ELSE << >>

(***************************************************************************)
(* The decoded body: a JSON value or text.                                 *)
(***************************************************************************)
JsonData(v) == [kind |-> "json", value |-> v, text |-> << >>]
TextData(t) == [kind |-> "text", value |-> JsonValue(0, 0), text |-> t]

(* the except branch of the decoding step *)
DecodeFallback(buf) == TextData(Repr(buf))

(* _handle_response, "Process the complete response" *)
Classify(content_type, buf) ==
    IF ContainsJson(content_type)
    THEN IF Has(json_loads(buf)) THEN JsonData(Get(json_loads(buf)))
         ELSE DecodeFallback(buf)
    ELSE IF Has(DecodeUtf8(buf)) THEN TextData(Get(DecodeUtf8(buf)))
         ELSE DecodeFallback(buf)

(***************************************************************************)
(* Envelopes.                                                              *)
(***************************************************************************)
SuccessEnvelope(resp, cfg, buf) ==
    [success |-> Ok(resp.status_code),
     status_code |-> resp.status_code,
     status_text |-> Reason(resp.status_code),
     headers |-> ("content-type" :> resp.content_type),
     data |-> Classify(resp.content_type, buf),
     url |-> resp.url,
     method |-> cfg.method,
     size |-> Len(buf)]

ErrorEnvelope(status, error, method, url) ==
    [success |-> FALSE, status_code |-> status, error |-> error,
     method |-> method, url |-> url]

Returned(envelope) == [returned |-> <<envelope>>, raised |-> << >>]
Raised(exc) == [returned |-> << >>, raised |-> <<exc>>]

(* the except clause of _handle_response *)
HandleResponseExcept(exc, resp, cfg) ==
    IF IsInstance(exc, "Exception")
    THEN Returned(ErrorEnvelope(resp.status_code,
                                <<"Error processing response: ", exc.msg>>,
                                cfg.method, resp.url))
    ELSE Raised(exc)

(* the except clauses of execute, in their order *)
ExecuteExcept(exc, cfg) ==
    IF IsInstance(exc, "Timeout")
    THEN Returned(ErrorEnvelope(408, <<"Request timed out">>, cfg.method, cfg.endpoint))
    ELSE IF IsInstance(exc, "ConnectionError")
    THEN Returned(ErrorEnvelope(503, <<"Connection error: ", exc.msg>>,
                                cfg.method, cfg.endpoint))
    ELSE IF IsInstance(exc, "Exception")
    THEN Returned(ErrorEnvelope(500, <<exc.msg>>, cfg.method, cfg.endpoint))
    ELSE Raised(exc)

(* faulty variant: handle_api_request without its try block *)
HandleApiRequestExcept_Reraise(exc, cfg) == Raised(exc)

(* the except clause of handle_api_request *)
HandleApiRequestExcept(exc, cfg) ==
    IF IsInstance(exc, "Exception")
    THEN Returned(ErrorEnvelope(500, <<exc.msg>>, GetOr(cfg.method, "GET"),
                                GetOr(cfg.endpoint, "")))
    ELSE Raised(exc)

(* an exception on its way out of execute, then out of handle_api_request *)
Propagate(exc, cfg, raw) ==
    LET o == ExecuteExcept(exc, cfg)
    IN  IF Has(o.raised) THEN HandleApiRequestExcept(Get(o.raised), raw) ELSE o

(* an exception raised while the response is handled *)
PropagateFromResponse(exc, resp, cfg, raw) ==
    LET o == HandleResponseExcept(exc, resp, cfg)
    IN  IF Has(o.raised) THEN Propagate(Get(o.raised), cfg, raw) ELSE o

(***************************************************************************)
(* handle_api_request(config, auth_token).                                 *)
(***************************************************************************)
ExecIdle ==
    /\ pc = "idle" /\ handler = << >> /\ sessionOpen = FALSE /\ request = << >>
    /\ attempts = 0 /\ retrying = << >> /\ response = << >>
    /\ responseOpen = FALSE
    /\ accumulated = << >> /\ yielded = 0 /\ fault = "none"
    /\ truncation = << >> /\ result = << >> /\ escaped = << >>
    /\ config = [endpoint |-> << >>, method |-> << >>, headers |-> << >>,
                 payload |-> << >>]
    /\ auth_token = << >>

PollIdle ==
    /\ pollPc = "idle" /\ now = 0 /\ start_time = 0 /\ max_duration = 0
    /\ interval = 0 /\ ticks = << >> /\ notifications = 0 /\ pollStatus = FALSE
    /\ tick = "none" /\ busy = 0
    /\ pollInput = [descriptor_ok |-> TRUE, encodable |-> TRUE]
    /\ lastEvent = "none" /\ failures = 0 /\ sawFlag = FALSE
    /\ cancelled = FALSE /\ pollEscaped = << >>

SharedIdle ==
    /\ callPc = << >> /\ callsMade = << >>

Init ==
    /\ config \in Configs
    /\ auth_token \in Tokens
    /\ pc = "start"
    /\ handler = << >>
    /\ sessionOpen = FALSE
    /\ request = << >>
    /\ attempts = 0
    /\ retrying = << >>
    /\ response = << >>
    /\ responseOpen = FALSE
    /\ accumulated = << >>
    /\ yielded = 0
    /\ fault = "none"
    /\ truncation = << >>
    /\ result = << >>
    /\ escaped = << >>
    /\ PollIdle
    /\ SharedIdle

(* faulty variant: execute without its finally clause *)
Finish_SessionLeftOpen(outcome, why) ==
    /\ pc' = "done"
    /\ result' = outcome.returned
    /\ escaped' = outcome.raised
    /\ fault' = why
    /\ responseOpen' = FALSE
    /\ UNCHANGED sessionOpen

(* execute has left through the with statement (the response is closed) and
   its finally clause (the session is closed), and handle_api_request has
   returned or raised *)
Finish(outcome, why) ==
    /\ pc' = "done"
    /\ result' = outcome.returned
    /\ escaped' = outcome.raised
    /\ fault' = why
    /\ sessionOpen' = FALSE
    /\ responseOpen' = FALSE

(* faulty variant: the credential is merged into self.config['headers'] itself *)
StoredHeaders_NoCopy(headers, token) == MergeCredential(headers, token)

(* self.config['headers'] once execute has prepared its headers: the merge
   writes to headers, which is a copy *)
StoredHeaders(headers, token) == headers

(* APIHandler(config): validation, session, and execute up to the request.
   The validator stores the caller's headers dict itself, not a copy, so what
   is written to the stored headers shows in the caller's mapping too. *)
Call ==
    /\ UNCHANGED <<pollVars, sharedVars>>
    /\ pc = "start"
    /\ LET v == _validate_config(config)
       IN  IF v.ok
           THEN LET stored == StoredHeaders(Get(v.config).headers, auth_token)
                IN  /\ handler' = <<[Get(v.config) EXCEPT !.headers = stored]>>
                    /\ config' = IF Has(config.headers)
                                  THEN [config EXCEPT !.headers =
                                          <<[Get(config.headers) EXCEPT !.items = stored]>>]
                                  ELSE config
                    /\ sessionOpen' = TRUE
                    /\ request' = <<RequestParams(Get(v.config), auth_token)>>
                    /\ pc' = "sending"
                    /\ UNCHANGED <<result, escaped, fault>>
           ELSE /\ pc' = "done"
                /\ result' = HandleApiRequestExcept(Get(v.exc), config).returned
                /\ escaped' = HandleApiRequestExcept(Get(v.exc), config).raised
                /\ fault' = "invalid_config"
                /\ UNCHANGED <<config, handler, sessionOpen, request>>
    /\ UNCHANGED <<auth_token, attempts, retrying, response, responseOpen,
                   accumulated, yielded, truncation>>

(* the fault recorded when the transport gives up on an outcome *)
GiveUpFault(outcome) ==
    IF outcome.kind = "response" THEN "retries_exhausted" ELSE outcome.kind

(* the first lines of _handle_response: the headers are read; length_ok is
   FALSE when the content-length header is no decimal number and int() raises *)
BeginResponse(resp) ==
    /\ response' = <<resp>>
    /\ IF resp.length_ok
       THEN /\ responseOpen' = TRUE
            /\ pc' = "streaming"
            /\ UNCHANGED <<result, escaped, fault, sessionOpen>>
       ELSE Finish(PropagateFromResponse(Exc("ValueError", "invalid literal for int()"),
                                         resp, Get(handler), config),
                   "bad_length")

(* session.request: one attempt of the transport and what follows from it *)
Attempt ==
    /\ UNCHANGED <<pollVars, sharedVars>>
    /\ pc = "sending"
    /\ \E outcome \in Outcomes, ct \in ContentTypes, lok \in BOOLEAN :
         /\ attempts' = attempts + 1
         /\ IF IsRetry(Get(handler).method, outcome, Remaining(attempts))
            THEN IF Exhausted(attempts)
                 THEN /\ Finish(Propagate(SendRaises(outcome), Get(handler), config),
                                GiveUpFault(outcome))
                      /\ retrying' = << >>
                      /\ UNCHANGED response
                 ELSE /\ retrying' = <<outcome>>
                      /\ UNCHANGED <<pc, response, responseOpen, result, escaped,
                                     fault, sessionOpen>>
            ELSE /\ outcome.kind = "response"
                 /\ retrying' = << >>
                 /\ BeginResponse([status_code |-> outcome.status,
                                   content_type |-> ct,
                                   length_ok |-> lok,
                                   url |-> Get(request).url])
    /\ UNCHANGED <<config, auth_token, handler, request, accumulated, yielded,
                   truncation>>

(* accumulated_data.extend(chunk) *)
Extend(buf, chunk) == buf \o chunk

(* _stream_response yields a chunk of iter_content; an empty one is skipped *)
StreamChunk ==
    /\ UNCHANGED <<pollVars, sharedVars>>
    /\ pc = "streaming"
    /\ \E chunk \in Chunks :
         /\ Len(accumulated) + Len(chunk) <= MaxBody
         /\ IF chunk # << >>
            THEN /\ yielded' = yielded + Len(chunk)
                 /\ accumulated' = Extend(accumulated, chunk)
            ELSE UNCHANGED <<yielded, accumulated>>
    /\ UNCHANGED <<config, auth_token, pc, handler, sessionOpen, request, attempts,
                   retrying, response, responseOpen, fault, truncation, result,
                   escaped>>

(* iter_content is exhausted: the body is decoded and the envelope returned *)
StreamEnd ==
    /\ UNCHANGED <<pollVars, sharedVars>>
    /\ pc = "streaming"
    /\ Finish(Returned(SuccessEnvelope(Get(response), Get(handler), accumulated)),
              "none")
    /\ UNCHANGED <<config, auth_token, handler, request, attempts, retrying,
                   response, accumulated, yielded, truncation>>

(* e.partial of an IncompleteRead.  The class caught is urllib3's, whose
   partial is the number of bytes read (an int); http.client's, its base,
   carries the bytes themselves.  count is the int, or the length of the bytes. *)
PartialBytes(bytes) == [isBytes |-> TRUE, bytes |-> bytes, count |-> Len(bytes)]
PartialCount(n) == [isBytes |-> FALSE, bytes |-> << >>, count |-> n]

Partials ==
    {PartialBytes(c) : c \in Chunks} \cup {PartialCount(n) : n \in 0..MaxChunk}

(* the except IncompleteRead clause of _stream_response: what the generator
   yields last, << >> when e.partial is falsy *)
IncompleteReadYields(partial) == IF partial.count # 0 THEN <<partial>> ELSE << >>

(* iter_content raises IncompleteRead: the generator yields e.partial, if any,
   and ends; accumulated_data.extend raises TypeError for an int *)
StreamIncompleteRead ==
    /\ UNCHANGED <<pollVars, sharedVars>>
    /\ pc = "streaming"
    /\ \E partial \in Partials :
         /\ Len(accumulated) + partial.count <= MaxBody
         /\ truncation' = <<[before |-> accumulated, partial |-> partial]>>
         /\ LET last == IncompleteReadYields(partial)
            IN  IF Has(last) /\ ~Get(last).isBytes
                THEN /\ Finish(PropagateFromResponse(
                                   Exc("TypeError", "can't extend bytearray with int"),
                                   Get(response), Get(handler), config),
                               "truncated")
                     /\ UNCHANGED <<accumulated, yielded>>
                ELSE LET buf == IF Has(last) THEN Extend(accumulated, Get(last).bytes)
                                ELSE accumulated
                     IN  /\ accumulated' = buf
                         /\ yielded' = yielded + Len(buf) - Len(accumulated)
                         /\ Finish(Returned(SuccessEnvelope(Get(response),
                                                            Get(handler), buf)),
                                   "truncated")
    /\ UNCHANGED <<config, auth_token, handler, request, attempts, retrying,
                   response>>

(* what iter_content raises besides IncompleteRead: a read timeout (requests
   raises ConnectionError for it) or a broken transfer *)
StreamFaults ==
    {[fault |-> "body_read_timeout", exc |-> Exc("ConnectionError", "Read timed out.")],
     [fault |-> "stream_error", exc |-> Exc("ChunkedEncodingError", "Connection broken")]}

(* iter_content raises: _stream_response logs and raises again *)
StreamRaise ==
    /\ UNCHANGED <<pollVars, sharedVars>>
    /\ pc = "streaming"
    /\ \E f \in StreamFaults :
         Finish(PropagateFromResponse(f.exc, Get(response), Get(handler), config),
                f.fault)
    /\ UNCHANGED <<config, auth_token, handler, request, attempts, retrying,
                   response, accumulated, yielded, truncation>>

Next == Call \/ Attempt \/ StreamChunk \/ StreamEnd \/ StreamIncompleteRead
        \/ StreamRaise

Spec == Init /\ [][Next]_vars

(***************************************************************************)
(* Request preparation on its own: APIHandler(config) and execute up to    *)
(* the call of session.request, over credentials, payloads and headers of  *)
(* every kind the code tells apart.                                        *)
(***************************************************************************)
PrepTokens ==
    {<< >>, << << >> >>, <<Str("tok")>>, <<<<"Bearer ", "tok">>>>,
     <<<<"bearer ", "tok">>>>, <<Str("Bearer")>>, <<<<"Bearer ", "Bearer ", "tok">>>>}

PrepPayloads == {<< >>, <<EmptyDict>>, <<("id" :> 1)>>, <<("id" :> 1) @@ ("q" :> 2)>>}

(* a dict that is not a flat str -> str mapping: items holds its entries
   (a value that is no str by its repr), notFlat says what is wrong with it *)
NonFlatDict(items, why) == [isDict |-> TRUE, items |-> items, notFlat |-> why]

PrepHeaderValues ==
    HeaderValues \cup
    {<<Dict(("Authorization" :> <<"Basic ", "old">>) @@ ("X-Trace" :> Str("1")))>>,
     <<Dict("Authorization" :> <<"Bearer ", "old">>)>>,
     <<NonFlatDict("X-Meta" :> Str("{'a': 1}"), "nested value")>>,
     <<NonFlatDict("1" :> Str("x"), "key is no str")>>}

(* a field the validator does not know, as in the example configuration *)
PrepNames == {<< >>, <<"Test API">>}

PrepConfigs ==
    [endpoint : Endpoints, method : MethodNames, headers : PrepHeaderValues,
     payload : PrepPayloads, name : PrepNames]

InitPrep ==
    /\ config \in PrepConfigs
    /\ auth_token \in PrepTokens
    /\ pc = "start"
    /\ handler = << >> /\ sessionOpen = FALSE /\ request = << >>
    /\ attempts = 0 /\ retrying = << >> /\ response = << >>
    /\ responseOpen = FALSE /\ accumulated = << >> /\ yielded = 0
    /\ fault = "none" /\ truncation = << >> /\ result = << >> /\ escaped = << >>
    /\ PollIdle
    /\ SharedIdle

NextPrep == Call

SpecPrep == InitPrep /\ [][NextPrep]_vars

(***************************************************************************)
(* handle_api_request with and without a credential, on valid              *)
(* configurations with and without headers and payload, through every exit *)
(* path of execute.                                                        *)
(***************************************************************************)
FrameConfigs ==
    [endpoint : {<<"http://h/x">>},
     method : {<<"get">>, <<"POST">>},
     headers : {<< >>,
                <<Dict(("Authorization" :> <<"Basic ", "old">>) @@ ("X-Trace" :> Str("1")))>>},
     payload : {<< >>, <<("id" :> 1)>>}]

FrameTokens == {<< >>, <<Str("tok")>>}

InitFrame ==
    /\ config \in FrameConfigs
    /\ auth_token \in FrameTokens
    /\ pc = "start"
    /\ handler = << >> /\ sessionOpen = FALSE /\ request = << >>
    /\ attempts = 0 /\ retrying = << >> /\ response = << >>
    /\ responseOpen = FALSE /\ accumulated = << >> /\ yielded = 0
    /\ fault = "none" /\ truncation = << >> /\ result = << >> /\ escaped = << >>
    /\ PollIdle
    /\ SharedIdle

SpecFrame == InitFrame /\ [][Next]_vars

(***************************************************************************)
(* One APIHandler used by several threads: each thread calls               *)
(* handler.execute(), and every call shares self.session.                  *)
(***************************************************************************)
NumThreads == 2
MaxCalls == 2

Threads == 1..NumThreads

SharedConfigs == {c \in Configs : _validate_config(c).ok}

(* handler = APIHandler(config) has been constructed: __init__ has validated
   the configuration and created the session *)
InitShared ==
    /\ config \in SharedConfigs
    /\ auth_token = << >>
    /\ pc = "idle"
    /\ handler = _validate_config(config).config
    /\ sessionOpen = TRUE
    /\ request = << >> /\ attempts = 0 /\ retrying = << >> /\ response = << >>
    /\ responseOpen = FALSE /\ accumulated = << >> /\ yielded = 0 /\ fault = "none"
    /\ truncation = << >> /\ result = << >> /\ escaped = << >>
    /\ PollIdle
    /\ callPc = [t \in Threads |-> "idle"]
    /\ callsMade = [t \in Threads |-> 0]

(* a thread enters execute and self.session.request(...): the request is in
   flight on a connection of the session's pool (a pool emptied by close() is
   filled again on demand) *)
SharedBegin ==
    /\ UNCHANGED <<pollVars, config, auth_token, pc, handler, request, attempts, retrying,
                   response, responseOpen, accumulated, yielded, fault, truncation,
                   result, escaped, callsMade>>
    /\ \E t \in Threads :
         /\ callPc[t] = "idle"
         /\ callsMade[t] < MaxCalls
         /\ callPc' = [callPc EXCEPT ![t] = "in_flight"]
         /\ sessionOpen' = TRUE

(* the response headers have arrived: the thread is inside the with block,
   reading the body in _handle_response *)
SharedRespond ==
    /\ UNCHANGED <<pollVars, config, auth_token, pc, handler, sessionOpen, request, attempts,
                   retrying, response, responseOpen, accumulated, yielded, fault,
                   truncation, result, escaped, callsMade>>
    /\ \E t \in Threads :
         /\ callPc[t] = "in_flight"
         /\ callPc' = [callPc EXCEPT ![t] = "reading"]

(* execute leaves, by return or through an except clause: the finally clause
   runs self.session.close() on the session all threads use *)
SharedReturn ==
    /\ UNCHANGED <<pollVars, config, auth_token, pc, handler, request, attempts, retrying,
                   response, responseOpen, accumulated, yielded, fault, truncation,
                   result, escaped>>
    /\ \E t \in Threads :
         /\ callPc[t] \in {"in_flight", "reading"}
         /\ callPc' = [callPc EXCEPT ![t] = "idle"]
         /\ callsMade' = [callsMade EXCEPT ![t] = @ + 1]
         /\ sessionOpen' = FALSE

NextShared == SharedBegin \/ SharedRespond \/ SharedReturn

SpecShared == InitShared /\ [][NextShared]_vars

(***************************************************************************)
(* poll_status(api_info, poll_id, max_duration, interval), a generator.    *)
(* Time is counted in whole units; a request takes 0..MaxReqDur of them.   *)
(***************************************************************************)
MaxDurations == {0, 7, 10}
Intervals == {3, 5}

(* how one call of execute_api_call, and the reading of the flag, can end:
   the body holds the flag (false or true) or lacks it, the request fails
   (any exception of execute_api_call), or the body is no mapping *)
TickOutcomes == {"flag_false", "flag_true", "flag_missing", "request_failed", "not_a_mapping"}

(* what the caller hands to poll_status: api_info with or without a usable
   "endpoint" ("<METHOD> <path>"), and a poll_id json.dumps can or cannot
   encode *)
PollInputs == [descriptor_ok : BOOLEAN, encodable : BOOLEAN]

(* result['response']['body'].get('expired', False), where it is evaluated *)
Expired(outcome) == outcome = "flag_true"

(* the tick raises before its yield, and the except clause yields instead *)
TickRaises(outcome) ==
    outcome \in {"request_failed", "not_a_mapping", "bad_descriptor", "unencodable"}

(* where the try block of one tick ends for a given caller: api_info["endpoint"]
   and endpoint.split(" ", 1) raise before any request; json.dumps of the result
   raises after the flag was read *)
Effective(outcome, input) ==
    IF ~input.descriptor_ok THEN "bad_descriptor"
    ELSE IF ~TickRaises(outcome) /\ ~input.encodable THEN "unencodable"
    ELSE outcome

(* the class of the exception a raising tick raises inside the try block *)
TickException(outcome) ==
    CASE outcome = "bad_descriptor" -> "KeyError"
      [] outcome = "request_failed" -> "Exception"
      [] outcome = "not_a_mapping" -> "AttributeError"
      [] outcome = "unencodable" -> "TypeError"

(* faulty variant: a bare except, which also catches GeneratorExit *)
PollExceptCatches_Everything(cls) == Ancestors(cls) # {}

(* faulty variant: only the exception execute_api_call raises itself is caught *)
PollExceptCatches_ExactClass(cls) == cls = "Exception"

(* except Exception as e, in the loop of poll_status *)
PollExceptCatches(cls) == "Exception" \in Ancestors(cls)

(* status after the try block: assigned only when line 119 was completed *)
StatusAfter(outcome, effective, old) ==
    IF effective \in {"bad_descriptor", "request_failed", "not_a_mapping"}
    THEN old ELSE Expired(outcome)

(* faulty variant: the except clause yields nothing *)
TickEvents_SilentFailure(outcome) ==
    IF TickRaises(outcome) THEN << >> ELSE <<"result">>

(* the events one tick yields: the result from the try block, or the error
   message from the except clause *)
TickEvents(outcome) ==
    IF TickRaises(outcome) THEN <<"error">> ELSE <<"result">>

InitPoll ==
    /\ ExecIdle
    /\ SharedIdle
    /\ pollPc = "start"
    /\ now \in 0..1
    /\ start_time = 0
    /\ max_duration \in MaxDurations
    /\ interval \in Intervals
    /\ ticks = << >>
    /\ notifications = 0
    /\ pollStatus = FALSE
    /\ tick = "none"
    /\ busy = 0
    /\ pollInput \in PollInputs
    /\ lastEvent = "none"
    /\ failures = 0
    /\ sawFlag = FALSE
    /\ cancelled = FALSE
    /\ pollEscaped = << >>

(* start_time = time.time() *)
PollStart ==
    /\ UNCHANGED <<execVars, sharedVars>>
    /\ pollPc = "start"
    /\ start_time' = now
    /\ pollPc' = "check"
    /\ UNCHANGED <<now, max_duration, interval, ticks, notifications, pollStatus, tick, busy,
                   pollInput, lastEvent, failures, sawFlag, cancelled, pollEscaped>>

(* faulty variant: the loop condition with <= *)
WithinBudget_Inclusive(elapsed, budget) == elapsed <= budget

(* the condition of the while loop *)
WithinBudget(elapsed, budget) == elapsed < budget

(* while time.time() - start_time < max_duration: a tick begins, or the loop
   is left and TimeoutError is raised *)
PollCheck ==
    /\ UNCHANGED <<execVars, sharedVars>>
    /\ pollPc = "check"
    /\ IF WithinBudget(now - start_time, max_duration)
       THEN /\ pollPc' = "request"
            /\ ticks' = Append(ticks, now - start_time)
            /\ UNCHANGED pollEscaped
       ELSE /\ pollPc' = "timed_out"
            /\ pollEscaped' = <<"TimeoutError">>
            /\ UNCHANGED ticks
    /\ UNCHANGED <<now, start_time, max_duration, interval, notifications, pollStatus,
                   tick, busy, pollInput, lastEvent, failures, sawFlag, cancelled>>

(* the body of the try block up to its yield, or the except clause up to its
   yield: the generator is suspended with one event handed out; an exception
   the except clause does not catch leaves the generator *)
PollTick ==
    /\ UNCHANGED <<execVars, sharedVars>>
    /\ pollPc = "request"
    /\ \E outcome \in TickOutcomes, d \in 0..MaxReqDur :
         LET effective == Effective(outcome, pollInput)
             events == TickEvents(effective)
         IN /\ now' = now + d
            /\ busy' = busy + d
            /\ tick' = effective
            /\ pollStatus' = StatusAfter(outcome, effective, pollStatus)
            /\ failures' = failures + (IF TickRaises(effective) THEN 1 ELSE 0)
            /\ IF TickRaises(effective) /\ ~PollExceptCatches(TickException(effective))
               THEN /\ pollPc' = "crashed"
                    /\ pollEscaped' = <<TickException(effective)>>
                    /\ UNCHANGED <<notifications, lastEvent, sawFlag>>
               ELSE /\ pollPc' = "yielded"
                    /\ notifications' = notifications + Len(events)
                    /\ lastEvent' = IF events = << >> THEN lastEvent
                                    ELSE events[Len(events)]
                    /\ sawFlag' = (sawFlag \/ effective = "flag_true")
                    /\ UNCHANGED pollEscaped
    /\ UNCHANGED <<start_time, max_duration, interval, ticks, pollInput, cancelled>>

(* requests.get / requests.post are called without a timeout argument: against
   a server that accepts the connection and never answers, the call does not
   return and the loop condition is not evaluated again *)
PollHang ==
    /\ UNCHANGED <<execVars, sharedVars>>
    /\ pollPc = "request"
    /\ pollInput.descriptor_ok
    /\ pollPc' = "hung"
    /\ UNCHANGED <<now, start_time, max_duration, interval, ticks, notifications, pollStatus,
                   tick, busy, pollInput, lastEvent, failures, sawFlag, cancelled,
                   pollEscaped>>

(* faulty variant: a failed tick ends the generator *)
ResumeTo_FailureEnds(outcome, status) ==
    IF TickRaises(outcome) THEN "crashed"
    ELSE IF status THEN "complete" ELSE "sleep"

(* faulty variant: status is looked at after a failed tick too *)
ResumeTo_StaleStatus(outcome, status) ==
    IF status THEN "complete" ELSE "sleep"

(* faulty variant: the flag is not looked at after the yield *)
ResumeTo_NeverReturns(outcome, status) == "sleep"

(* after the yield: "if status: return" is reached only from the try block;
   everything else goes on to time.sleep(interval) *)
ResumeTo(outcome, status) ==
    IF ~TickRaises(outcome) /\ status THEN "complete" ELSE "sleep"

(* the generator is resumed: return when the flag was read true, else
   time.sleep(interval) and back to the loop condition *)
PollResume ==
    /\ UNCHANGED <<execVars, sharedVars>>
    /\ pollPc = "yielded"
    /\ LET to == ResumeTo(tick, pollStatus)
       IN IF to = "sleep"
          THEN /\ pollPc' = "check"
               /\ now' = now + interval
          ELSE /\ pollPc' = to
               /\ UNCHANGED now
    /\ UNCHANGED <<start_time, max_duration, interval, ticks, notifications, pollStatus,
                   tick, busy, pollInput, lastEvent, failures, sawFlag, cancelled,
                   pollEscaped>>

(* the consumer closes the generator while it is suspended at a yield:
   GeneratorExit is raised there.  At the yield of the try block the except
   clause is tried; at the yield of the except clause nothing can catch it.
   A generator that catches it goes on and yields the error event. *)
PollCancel ==
    /\ UNCHANGED <<execVars, sharedVars>>
    /\ pollPc = "yielded"
    /\ ~cancelled
    /\ cancelled' = TRUE
    /\ IF ~TickRaises(tick) /\ PollExceptCatches("GeneratorExit")
       THEN /\ notifications' = notifications + 1
            /\ lastEvent' = "error"
            /\ failures' = failures + 1
            /\ tick' = "request_failed"
            /\ UNCHANGED pollPc
       ELSE /\ pollPc' = "cancelled"
            /\ UNCHANGED <<notifications, lastEvent, failures, tick>>
    /\ UNCHANGED <<now, start_time, max_duration, interval, ticks, pollStatus, busy,
                   pollInput, sawFlag, pollEscaped>>

NextPoll == PollStart \/ PollCheck \/ PollTick \/ PollHang \/ PollResume \/ PollCancel

SpecPoll == InitPoll /\ [][NextPoll]_vars

(* the generator is driven to its end: the consumer keeps asking for the next
   event, and a call that can return does return *)
SpecPollFair == SpecPoll /\ WF_vars(NextPoll)

(***************************************************************************)
(* Properties of handle_api_request (specification Spec).                  *)
(***************************************************************************)
Done == pc = "done" /\ Has(result)

Envelope == Get(result)

FailureFaults ==
    {"invalid_config", "connect_timeout", "read_timeout", "connection_error",
     "retries_exhausted", "bad_length", "body_read_timeout", "stream_error"}

(* C1: handle_api_request always returns an envelope and never raises; an
   invalid configuration, a timeout, a connection failure and every other
   exception of the pipeline end in an envelope with success = false. *)
C1_NeverRaises ==
    /\ escaped = << >>
    /\ pc = "done" => Has(result)
    /\ (pc = "done" /\ fault \in FailureFaults) => Envelope.success = FALSE

C1_Witness ==
    /\ Done /\ fault = "connect_timeout" /\ escaped = << >>
    /\ Envelope.success = FALSE

(* the configurations C2 names: endpoint missing or empty, scheme not http or
   https, or method outside the five supported ones *)
NamedInvalid(cfg) ==
    \/ ~Has(cfg.endpoint)
    \/ Get(cfg.endpoint) = ""
    \/ urlparse(Get(cfg.endpoint)).scheme \notin {"http", "https"}
    \/ upper(GetOr(cfg.method, "GET")) \notin {"GET", "POST", "PUT", "PATCH", "DELETE"}

(* C2: a configuration without endpoint, with a scheme other than http or
   https, or with an unsupported method fails validation with ValueError, no
   handler configuration is produced and the transport never issues a
   request. *)
C2_InvalidConfigNoRequest ==
    NamedInvalid(config) =>
        /\ attempts = 0
        /\ handler = << >>
        /\ request = << >>
        /\ pc \in {"start", "done"}
        /\ pc = "done" =>
             /\ fault = "invalid_config"
             /\ Has(result) /\ Envelope.success = FALSE
             /\ Has(_validate_config(config).exc)
             /\ Get(_validate_config(config).exc).cls = "ValueError"

C2_Witness ==
    /\ Done /\ Has(config.endpoint) /\ Get(config.endpoint) = "ftp://h/x"
    /\ attempts = 0 /\ fault = "invalid_config"

(* the decoding C3 states: the JSON value when the content type contains
   application/json and the bytes parse, otherwise the bytes as UTF-8 text *)
StatedDecoding(content_type, buf) ==
    IF ContainsJson(content_type) /\ Has(json_loads(buf))
    THEN JsonData(Get(json_loads(buf)))
    ELSE TextData(Get(DecodeUtf8(buf)))

(* C3: in every successful envelope size is the number of bytes yielded by
   the stream and data is the stated decoding of the accumulated bytes
   (stated here for bodies that are valid UTF-8). *)
C3_SizeAndData ==
    (Done /\ Envelope.success) =>
        /\ Envelope.size = yielded
        /\ IsUtf8(accumulated) =>
             Envelope.data = StatedDecoding(Get(response).content_type, accumulated)

(* C4: a JSON content type, a body that is text but no JSON document and a
   success status give success = true and data equal to the text of the body. *)
C4_MalformedJsonIsRawText ==
    ( /\ Done /\ fault = "none"
      /\ ContainsJson(Get(response).content_type)
      /\ Ok(Get(response).status_code)
      /\ accumulated # << >>
      /\ IsUtf8(accumulated) /\ ~Has(json_loads(accumulated)) ) =>
        /\ Envelope.success = TRUE
        /\ Envelope.data = TextData(accumulated)

(* C5: a read timeout, while the response headers are awaited or while the
   body is streamed, ends in success = false and status_code = 408. *)
C5_ReadTimeoutIs408 ==
    (Done /\ fault \in {"read_timeout", "body_read_timeout"}) =>
        /\ Envelope.success = FALSE
        /\ Envelope.status_code = 408

(* C6: a stream error in mid-transfer ends in success = false and the local
   status_code 500, whatever status the response carried. *)
C6_StreamErrorIs500 ==
    (Done /\ fault = "stream_error") =>
        /\ Envelope.success = FALSE
        /\ Envelope.status_code = 500

(* C7: an envelope with success = false carries error, status_code, method
   and url; an envelope with success = true carries data and size. *)
C7_EnvelopeShape ==
    Done =>
        /\ Envelope.success = FALSE =>
             {"error", "status_code", "method", "url"} \subseteq DOMAIN Envelope
        /\ Envelope.success = TRUE => {"data", "size"} \subseteq DOMAIN Envelope

(* C8 as stated: at most 3 attempts in one execute call, and only network
   failures and the statuses 500, 502, 503, 504 are retried. *)
C8_AtMostThreeAttempts ==
    /\ attempts <= 3
    /\ Has(retrying) =>
         \/ Get(retrying).kind \in NetworkFailures
         \/ Get(retrying).status \in {500, 502, 503, 504}

(* C8 amended: at most 4 attempts in one execute call (the first and up to 3
   retries), for each of the five methods; a response is retried only when
   its status is 500, 502, 503 or 504, or when it carries a Retry-After
   header and its status is 413, 429 or 503. *)
C8_AtMostFourAttempts ==
    /\ attempts <= 4
    /\ Has(handler) => Get(handler).method \in {"GET", "POST", "PUT", "PATCH", "DELETE"}
    /\ Has(retrying) =>
         \/ Get(retrying).kind \in NetworkFailures
         \/ Get(retrying).status \in {500, 502, 503, 504}
         \/ Get(retrying).retry_after /\ Get(retrying).status \in {413, 429, 503}

C8_Witness ==
    /\ Done /\ attempts = 4 /\ fault = "retries_exhausted"
    /\ Get(handler).method = "DELETE"

(* C9: after an IncompleteRead the partial bytes follow the chunks already
   delivered, nothing more is read, and the envelope returned has data and
   size and no error, with size = bytes delivered before + partial bytes. *)
C9_TruncationIsNotAnError ==
    Has(truncation) =>
        /\ Done /\ fault = "truncated"
        /\ {"data", "size"} \subseteq DOMAIN Envelope
        /\ "error" \notin DOMAIN Envelope
        /\ Envelope.size = Len(Get(truncation).before) + Get(truncation).partial.count
        /\ Get(truncation).partial.isBytes =>
             accumulated = Get(truncation).before \o Get(truncation).partial.bytes

(* C18: whenever execute has returned, by return or through any of its
   except clauses, the response it received is closed and the session of the
   handler is closed; there is no state in which the call is over and the
   session still open. *)
C18_ReleasedOnReturn ==
    pc = "done" => (~sessionOpen /\ ~responseOpen)

C18_Witness ==
    /\ pc = "done" /\ Has(handler) /\ Has(response)
    /\ fault = "stream_error" /\ ~sessionOpen /\ ~responseOpen

(***************************************************************************)
(* Properties of the request preparation (specification SpecPrep).         *)
(***************************************************************************)
Prepared == pc = "sending" /\ Has(request) /\ Has(handler)

(* the value a credential is sent as, by the stated rule *)
StatedAuthorization(t) ==
    IF startswith(t, "Bearer ") THEN t ELSE <<"Bearer ">> \o t

RECURSIVE LeadingBearers(_)
LeadingBearers(s) ==
    IF startswith(s, "Bearer ") THEN 1 + LeadingBearers(Tail(s)) ELSE 0

(* C19: with a non-empty credential t the Authorization header sent is t when
   t starts with "Bearer " and "Bearer " followed by t otherwise; the prefix
   is never added to one already there, so the header starts with "Bearer "
   once unless t itself repeats it; merging the header value again changes
   nothing; the header replaces an Authorization header of the configuration
   and every other header is kept; without a credential, or with an empty
   one, the headers are those of the configuration. *)
C19_CredentialMerge ==
    Prepared =>
      LET sent == Get(request).headers
          own == Get(handler).headers
      IN  IF TruthyStr(auth_token)
          THEN /\ DOMAIN sent = DOMAIN own \cup {"Authorization"}
               /\ sent["Authorization"] = StatedAuthorization(Get(auth_token))
               /\ LeadingBearers(sent["Authorization"]) =
                    (IF LeadingBearers(Get(auth_token)) = 0 THEN 1
                     ELSE LeadingBearers(Get(auth_token)))
               /\ MergeCredential(sent, <<sent["Authorization"]>>) = sent
               /\ MergeCredential(own, <<sent["Authorization"]>>) = sent
               /\ \A k \in DOMAIN own \ {"Authorization"} : sent[k] = own[k]
          ELSE sent = own

C19_Witness ==
    /\ Prepared
    /\ auth_token = <<Str("tok")>>
    /\ "Authorization" \in DOMAIN Get(handler).headers
    /\ "X-Trace" \in DOMAIN Get(request).headers
    /\ Get(request).headers["Authorization"] = <<"Bearer ", "tok">>

(* C20: a payload of a GET request is sent as query parameters and never as
   body; a payload of a POST, PUT, PATCH or DELETE request is sent as JSON
   body and never as query parameters; GET with an empty payload and GET
   without payload give the same, empty, parameters. *)
C20_PayloadRouting ==
    Prepared =>
      LET r == Get(request)
          c == Get(handler)
      IN  /\ c.method = "GET" =>
               /\ r.json = << >>
               /\ TruthyDict(c.payload) => r.params = c.payload
               /\ ~TruthyDict(c.payload) => r.params = << >>
          /\ c.method \in {"POST", "PUT", "PATCH", "DELETE"} =>
               /\ r.params = << >>
               /\ TruthyDict(c.payload) => r.json = c.payload
          /\ RequestParams([c EXCEPT !.method = "GET", !.payload = <<EmptyDict>>],
                           auth_token).params
               = RequestParams([c EXCEPT !.method = "GET", !.payload = << >>],
                               auth_token).params

C20_Witness ==
    /\ Prepared
    /\ Get(handler).method = "DELETE"
    /\ Get(request).json = <<("id" :> 1)>>
    /\ Get(request).params = << >>

(* C21 as stated: an extra field of the raw configuration is found in the
   payload of the validated configuration. *)
C21_ExtrasReachPayload ==
    (Prepared /\ Has(config.name)) =>
      /\ Has(Get(handler).payload)
      /\ "name" \in DOMAIN Get(Get(handler).payload)

(* C21, amended: the validator drops every field other than endpoint, method,
   headers and payload: the validated configuration has these four fields
   only, its payload is the raw payload field as it is (absent when the raw
   configuration has none), and no extra field is sent as parameter or body. *)
C21_ExtrasDropped ==
    Prepared =>
      /\ DOMAIN Get(handler) = {"endpoint", "method", "headers", "payload"}
      /\ Get(handler).payload = config.payload
      /\ Get(request).params \in {<< >>, config.payload}
      /\ Get(request).json \in {<< >>, config.payload}

C21_Witness ==
    /\ Prepared /\ config.name = <<"Test API">>
    /\ config.payload = <<("id" :> 1)>>
    /\ Get(handler).payload = <<("id" :> 1)>>
    /\ Get(request).json = <<("id" :> 1)>>

(* a headers value that is a flat str -> str mapping *)
Flat(h) == h.isDict /\ "notFlat" \notin DOMAIN h

(* the message of the first check that fails, in the stated order, or "none" *)
StatedFirstFailure(cfg) ==
    IF ~Has(cfg.endpoint) \/ Get(cfg.endpoint) = ""
    THEN "API endpoint is required"
    ELSE IF urlparse(Get(cfg.endpoint)).scheme = "" \/ urlparse(Get(cfg.endpoint)).netloc = ""
    THEN "Invalid endpoint URL: Invalid URL format"
    ELSE IF urlparse(Get(cfg.endpoint)).scheme \notin {"http", "https"}
    THEN "Invalid endpoint URL: URL must use http or https protocol"
    ELSE IF upper(GetOr(cfg.method, "GET")) \notin {"GET", "POST", "PUT", "PATCH", "DELETE"}
    THEN "Unsupported HTTP method"
    ELSE IF Has(cfg.headers) /\ ~Flat(Get(cfg.headers))
    THEN "Headers must be a dictionary"
    ELSE "none"

(* C22: the validator checks endpoint present, absolute URL, scheme, method
   (defaulted to GET and upper-cased), headers, in this order, and reports
   the first check that fails; headers that are present and are not a flat
   str -> str mapping are rejected with the invalid-configuration error. *)
C22_FirstFailureReported ==
    pc \in {"sending", "done"} =>
      IF StatedFirstFailure(config) = "none"
      THEN Prepared
      ELSE /\ pc = "done" /\ fault = "invalid_config"
           /\ handler = << >> /\ request = << >>
           /\ Has(result)
           /\ Envelope.error = <<StatedFirstFailure(config)>>

(***************************************************************************)
(* Properties of the stored configuration (specification SpecFrame).       *)
(***************************************************************************)
(* C24: execute leaves the validated configuration as it was: with or
   without a credential, and on every exit path, the stored endpoint, method,
   headers and payload are those the validator produced, and the mapping the
   caller passed in is unchanged; the merged Authorization header is in the
   request only. *)
C24_ConfigUnchanged ==
    /\ [][config' = config]_vars
    /\ [][Has(handler) => handler' = handler]_vars
    /\ [](Has(handler) => handler = _validate_config(config).config)
    /\ []((Has(handler) /\ ~Has(config.headers)) =>
            "Authorization" \notin DOMAIN Get(handler).headers)

C24_Witness ==
    /\ pc = "done" /\ fault = "connection_error"
    /\ auth_token = <<Str("tok")>>
    /\ Has(config.headers) /\ Has(config.payload) /\ Has(handler) /\ Has(request)
    /\ Get(request).headers["Authorization"] = <<"Bearer ", "tok">>
    /\ Get(handler).headers["Authorization"] = <<"Basic ", "old">>
    /\ Get(config.headers).items["Authorization"] = <<"Basic ", "old">>
    /\ Get(handler).payload = <<("id" :> 1)>>

(***************************************************************************)
(* Properties of poll_status (specification SpecPoll).                     *)
(***************************************************************************)

(* C10: a tick starts only while the elapsed time is below max_duration;
   TimeoutError is raised with the budget exhausted and no tick in flight;
   with max_duration = 10 and interval = 5 there are exactly two ticks when
   the requests take less than 5 units in all, at t = 0 and t = 5 when they
   take no time. *)
C10_TicksWithinBudget ==
    /\ \A i \in 1..Len(ticks) : ticks[i] < max_duration
    /\ pollPc = "timed_out" =>
         /\ now - start_time >= max_duration
         /\ notifications = Len(ticks)
    /\ (pollPc = "timed_out" /\ max_duration = 10 /\ interval = 5 /\ busy < 5) =>
         Len(ticks) = 2
    /\ (pollPc = "timed_out" /\ max_duration = 10 /\ interval = 5 /\ busy = 0) =>
         ticks = <<0, 5>>

C10_Witness ==
    /\ pollPc = "timed_out" /\ max_duration = 10 /\ interval = 5 /\ busy = 0
    /\ ticks = <<0, 5>>

(***************************************************************************)
(* Properties of poll_status (specification SpecPoll).                     *)
(***************************************************************************)
Concluded == pollPc \in {"complete", "timed_out"}

(* C11: a tick that read a true flag and yielded its result ends the poll:
   the generator returns on the next resumption, with no sleep, no further
   tick, no further event and no TimeoutError; the event of that tick is the
   last one, and a true flag on the first tick gives exactly one event. *)
C11_FlagCompletes ==
    /\ [](pollPc = "complete" =>
            /\ tick = "flag_true"
            /\ lastEvent = "result"
            /\ notifications = Len(ticks)
            /\ pollEscaped = << >>
            /\ Len(ticks) = 1 => notifications = 1)
    /\ [][(pollPc = "yielded" /\ tick = "flag_true" /\ cancelled' = cancelled) =>
            /\ pollPc' = "complete"
            /\ now' = now
            /\ notifications' = notifications
            /\ ticks' = ticks]_vars
    /\ [][pollPc # "complete"]_vars

C11_Witness ==
    /\ pollPc = "complete" /\ Len(ticks) = 1 /\ notifications = 1
    /\ tick = "flag_true"

(* ticks whose try block or except clause has reached its yield *)
TicksCompleted == Len(ticks) - (IF pollPc \in {"request", "hung"} THEN 1 ELSE 0)

(* C12: every tick yields exactly one event whatever its outcome (flag false,
   true or missing, failed request, body of another shape): the events yielded
   are as many as the ticks completed, and each embeds the result of the
   request or the description of the error. *)
C12_OneEventPerTick ==
    /\ notifications = TicksCompleted
    /\ notifications > 0 => lastEvent \in {"result", "error"}
    /\ pollPc = "yielded" =>
         lastEvent = (IF tick \in {"flag_false", "flag_true", "flag_missing"}
                      THEN "result" ELSE "error")

C12_Witness ==
    /\ pollPc = "yielded" /\ tick = "not_a_mapping" /\ lastEvent = "error"
    /\ notifications = 3 /\ failures = 2

CeilDiv(a, b) == (a + b - 1) \div b

(* C13: a tick that failed never ends the poll: after its event the generator
   sleeps and checks the budget again; with requests that take no time the
   ticks before TimeoutError are ceil(max_duration / interval) whether they
   fail or not, a poll whose ticks all failed never ends as complete, and a
   tick that reads a true flag after failed ones still completes. *)
C13_FailedTickGoesOn ==
    /\ [][(pollPc = "yielded" /\ TickRaises(tick) /\ cancelled' = cancelled) =>
            /\ pollPc' = "check"
            /\ now' = now + interval
            /\ pollEscaped' = << >>]_vars
    /\ []((pollPc = "timed_out" /\ busy = 0) =>
            Len(ticks) = CeilDiv(max_duration, interval))
    /\ []((TicksCompleted = Len(ticks) /\ failures = Len(ticks)) =>
            pollPc \in {"start", "check", "yielded", "timed_out", "cancelled"})
    /\ [][(pollPc = "yielded" /\ tick = "flag_true" /\ failures > 0
           /\ cancelled' = cancelled) => pollPc' = "complete"]_vars

C13_Witness ==
    /\ pollPc = "timed_out" /\ tick = "request_failed"
    /\ Len(ticks) = 4 /\ failures = 4 /\ busy = 0

(* C14: TimeoutError is the only exception that leaves poll_status: whatever
   a tick raises (no usable endpoint in api_info, a failed request, a body
   without .get, an event that cannot be encoded) is caught in the loop; and
   TimeoutError is raised only when no tick of the session has read a true
   flag and yielded its result. *)
C14_OnlyTimeoutEscapes ==
    /\ pollEscaped \in {<< >>, <<"TimeoutError">>}
    /\ pollPc # "crashed"
    /\ pollEscaped = <<"TimeoutError">> <=> pollPc = "timed_out"
    /\ pollPc = "timed_out" => ~sawFlag
    /\ (pollPc = "yielded" /\ TickRaises(tick)) => lastEvent = "error"

C14_Witness ==
    /\ pollPc = "timed_out" /\ pollEscaped = <<"TimeoutError">>
    /\ tick = "unencodable" /\ failures = Len(ticks) /\ Len(ticks) >= 2

(* C15: every poll session that is not cancelled eventually ends as complete
   or with TimeoutError: no request keeps the generator inside one tick for
   ever, so the check of the budget is always reached again. *)
C15_EverySessionConcludes == <>(Concluded \/ pollPc = "cancelled")

(* C16: when the consumer closes the generator suspended at a yield, the
   generator ends there: the except clause of the loop does not catch the
   cancellation, no further tick starts, no further event is yielded, and
   TimeoutError is not raised afterwards. *)
C16_CancellationStops ==
    /\ [](cancelled =>
            /\ pollPc = "cancelled"
            /\ pollEscaped = << >>
            /\ notifications = Len(ticks))
    /\ [][(cancelled' /\ ~cancelled) =>
            /\ pollPc = "yielded" /\ pollPc' = "cancelled"
            /\ notifications' = notifications
            /\ ticks' = ticks
            /\ now' = now]_vars
    /\ [][~cancelled]_vars

C16_Witness ==
    /\ cancelled /\ pollPc = "cancelled"
    /\ tick = "flag_false" /\ Len(ticks) = 2 /\ notifications = 2

(* C23: the generator returns as complete only after a tick whose request
   succeeded (execute_api_call raised nothing, so no transport error and no
   error status) and whose body held a true flag; a failed tick, or one whose
   body has no flag, never ends the session as complete, whatever status an
   earlier line left behind, and a missing flag is read as false. *)
C23_CompleteOnlyOnFlag ==
    /\ [](pollPc = "complete" =>
            /\ tick = "flag_true" /\ ~TickRaises(tick)
            /\ pollStatus /\ sawFlag)
    /\ []((pollPc = "yielded" /\ tick = "flag_missing") => ~pollStatus)
    /\ [][(pollPc = "yielded" /\ tick # "flag_true") => pollPc' # "complete"]_vars
    /\ [][pollPc' = "complete" => pollPc \in {"yielded", "complete"}]_vars

C23_Witness ==
    /\ pollPc = "check" /\ tick = "unencodable" /\ pollStatus
    /\ failures = Len(ticks) /\ Len(ticks) >= 1

(***************************************************************************)
(* Properties of a handler shared by threads (specification SpecShared).   *)
(***************************************************************************)
InFlight == {t \in DOMAIN callPc : callPc[t] \in {"in_flight", "reading"}}

(* C17: with several execute calls running on one handler, no call closes
   the session while the request of another call is in flight. *)
C17_NoCloseWhileInFlight ==
    [][(sessionOpen /\ ~sessionOpen') => InFlight' = {}]_vars

====
